---- MODULE Spec2Model ----
(***************************************************************************)
(* A model of kworker's KworkAPI client (src/kworker/api.py): the lazily   *)
(* acquired token, request() with its failure classification and its      *)
(* refresh-and-retry handler, the concurrent and the sequential paginated  *)
(* fetch, and close().                                                     *)
(*                                                                         *)
(* Every coroutine is a task.  A task is suspended only while a network    *)
(* call of its innermost request() is in flight; everything the code does  *)
(* between two network calls of one task happens in one action.            *)
(***************************************************************************)
EXTENDS Integers, Sequences, FiniteSets, TLC

\* ------------------------------------------------------------------ bounds
MaxTok == 2
MaxDepth == 4
MaxItems == 1
MaxPages == 3
MaxSeqPage == 3
MaxDialogs == 3
MaxCloses == 2
MaxClients == 2

\* `self._token = None`: the empty cache, and the absent `token` parameter.
NoToken == 0

Tokens == 1..MaxTok

\* ---------------------------------------------------------------- messages
\* An error message is a sequence of characters.
Upper == <<"A","B","C","D","E","F","G","H","I","J","K","L","M",
           "N","O","P","Q","R","S","T","U","V","W","X","Y","Z">>
LowerCase == <<"a","b","c","d","e","f","g","h","i","j","k","l","m",
               "n","o","p","q","r","s","t","u","v","w","x","y","z">>

\* str.lower() on one character, and on a message.
LowerChar(c) ==
    IF \E i \in 1..Len(Upper) : Upper[i] = c
    THEN LowerCase[CHOOSE i \in 1..Len(Upper) : Upper[i] = c]
    ELSE c

Lower(s) == [i \in 1..Len(s) |-> LowerChar(s[i])]

\* `sub in s` on strings.
Contains(s, sub) ==
    \E i \in 1..(Len(s) - Len(sub) + 1) : SubSeq(s, i, i + Len(sub) - 1) = sub

StrLimit == <<"l","i","m","i","t">>
StrAuth == <<"a","u","t","h">>
StrToken == <<"t","o","k","e","n">>

\* json_response.get("error", "Unknown error")
UnknownError == <<"U","n","k","n","o","w","n"," ","e","r","r","o","r">>

MsgLimit == <<"R","a","t","e"," ","L","i","m","i","t">>
MsgAuthLimit == <<"a","u","t","h"," ","l","i","m","i","t">>
MsgAuth == <<"A","U","T","H">>
MsgToken == <<"b","a","d"," ","T","o","k","e","n">>
MsgOther == <<"o","o","p","s">>

\* ---------------------------------------------------------------- responses
\* What the transport hands to one network call: a JSON body
\* {success, error?, response, paging?}, a non-JSON content type, an
\* undecodable body, an aiohttp.ClientError or a timeout.
NoPaging == [kind |-> "absent", pages |-> 0]
EmptyPaging == [kind |-> "empty", pages |-> 0]
PagingNoCount == [kind |-> "nocount", pages |-> 0]
PagingOf(k) == [kind |-> "count", pages |-> k]

JsonOk(n, paging, tok) ==
    [kind |-> "json", success |-> TRUE, hasError |-> FALSE, error |-> <<>>,
     n |-> n, paging |-> paging, token |-> tok]

JsonFail(hasError, msg) ==
    [kind |-> "json", success |-> FALSE, hasError |-> hasError, error |-> msg,
     n |-> 0, paging |-> NoPaging, token |-> NoToken]

Transport(kind) ==
    [kind |-> kind, success |-> FALSE, hasError |-> FALSE, error |-> <<>>,
     n |-> 0, paging |-> NoPaging, token |-> NoToken]

\* error_msg = json_response.get("error", "Unknown error")
ErrorMsg(r) == IF r.hasError THEN r.error ELSE UnknownError

\* The if/elif/else of request() on error_msg.lower().
ClassifyBroken(msg) ==
    IF Contains(Lower(msg), StrAuth) \/ Contains(Lower(msg), StrToken)
    THEN "KworkAuthException"
    ELSE IF Contains(Lower(msg), StrLimit) THEN "KworkRateLimitException"
    ELSE "KworkApiException"

Classify(msg) ==
    IF Contains(Lower(msg), StrLimit) THEN "KworkRateLimitException"
    ELSE IF Contains(Lower(msg), StrAuth) \/ Contains(Lower(msg), StrToken)
    THEN "KworkAuthException"
    ELSE "KworkApiException"

\* The exception raised inside the try block of request(), "none" when the
\* body is returned.
RaisedInTry(r) ==
    CASE r.kind = "neterr" -> "ClientError"
      [] r.kind = "timeout" -> "TimeoutError"
      [] r.kind = "nonjson" -> "KworkApiException"
      [] r.kind = "badjson" -> "JSONDecodeError"
      [] r.kind = "json" /\ r.success -> "none"
      [] OTHER -> Classify(ErrorMsg(r))

\* The except clauses of request(): "recover" is the refresh-and-retry branch,
\* anything else is the class of the exception that leaves request().
HandleNoRetryLimit(exc, retried) ==
    CASE exc = "KworkAuthException" -> "recover"
      [] exc = "ClientError" -> "KworkConnectionException"
      [] exc = "JSONDecodeError" -> "KworkApiException"
      [] OTHER -> "KworkException"

HandleRecoversAny(exc, retried) ==
    CASE exc \in {"KworkAuthException", "KworkRateLimitException",
                  "KworkApiException"} ->
             IF ~retried THEN "recover" ELSE exc
      [] exc = "ClientError" -> "KworkConnectionException"
      [] exc = "JSONDecodeError" -> "KworkApiException"
      [] OTHER -> "KworkException"

Handle(exc, retried) ==
    CASE exc = "KworkAuthException" ->
             IF ~retried THEN "recover" ELSE "KworkAuthException"
      [] exc = "ClientError" -> "KworkConnectionException"
      [] exc = "JSONDecodeError" -> "KworkApiException"
      [] OTHER -> "KworkException"

\* ------------------------------------------------------------------- state
VARIABLES
    token,      \* self._token, NoToken for None
    closed,     \* self.session.closed
    sessCloses, \* how often self.session.close() was called
    prog,       \* per task: the coroutine it runs
    pc,         \* per task: where that coroutine is
    stack,      \* per task: its nested request() calls, innermost last, whose
                \* innermost network call is in flight
    loc,        \* per task: the coroutine's local variables
    result,     \* per task: what the coroutine returned or raised
    cnt,        \* per task: network calls, sign-ins, invalidations, request()s
    settled,    \* the tasks of a gather(), in the order they completed
    log         \* per task: the responses its network calls received

vars == <<token, closed, sessCloses, prog, pc, stack, loc, result, cnt,
          settled, log>>

Task == DOMAIN prog

\* One request() call: its endpoint, its page and token parameters, and its
\* `retried` flag.
Frame(ep, page, tok, retried) ==
    [ep |-> ep, page |-> page, tok |-> tok, retried |-> retried]

\* A parameter that is None is dropped from the request.
Absent == 0

\* self.password, and the placeholder '***'.
Password == MaxTok + 1
Stars == 0 - 1

\* The parameters of the request() call f after the None values are dropped:
\* the token of every call but signIn, the password of signIn, the page of a
\* paginated call.
Params(f) ==
    [token |-> f.tok,
     password |-> IF f.ep = "signIn" THEN Password ELSE Absent,
     page |-> f.page]

\* log_params: a copy of params with '***' for the keys password and token,
\* when they are present.
LogParamsKeepsToken(params) ==
    [k \in DOMAIN params |->
        IF k = "password" /\ params[k] # Absent THEN Stars ELSE params[k]]

LogParams(params) ==
    [k \in DOMAIN params |->
        IF k \in {"password", "token"} /\ params[k] # Absent THEN Stars
        ELSE params[k]]

\* request_info = {"method": method, "url": url, "params": log_params}
RequestInfo(f) == [url |-> f.ep, params |-> LogParams(Params(f))]
NoInfo == [url |-> "none", params |-> Params(Frame("none", 0, NoToken, FALSE))]

\* An exception: its class, what it was raised for, its message and its
\* request_info.
NoErr == [cls |-> "none", cause |-> "none", msg |-> <<>>, info |-> NoInfo]
Err(cls, cause, msg) ==
    [cls |-> cls, cause |-> cause, msg |-> msg, info |-> NoInfo]
ErrAt(cls, cause, msg, f) ==
    [cls |-> cls, cause |-> cause, msg |-> msg, info |-> RequestInfo(f)]
NoVal == JsonOk(0, NoPaging, NoToken)

\* The records of a page: the server's i-th record of page p.
Records(p, n) == [i \in 1..n |-> <<p, i>>]

\* What one response does to a chain of nested request() calls:
\* the chain afterwards, "pending" (another network call is in flight), "ok"
\* or "err" for the outermost caller, the token cache, and what was counted.
Outcome(stk, out, val, tokv, err, tok, dNet, dSign, dInval) ==
    [stack |-> stk, out |-> out, val |-> val, tokv |-> tokv, err |-> err,
     tok |-> tok, dNet |-> dNet, dSign |-> dSign, dInval |-> dInval]

\* An exception that no enclosing handler catches: raised inside an except
\* block, or in token / get_token, it leaves every nested request().
Abort(e, tok, dInval) ==
    Outcome(<<>>, "err", NoVal, NoToken, e, tok, 0, 0, dInval)

\* self.session.request(...) of a new request() on top of `base`: a closed
\* session raises RuntimeError inside the try block.
Issue(base, f, tok, isClosed, dInval) ==
    IF isClosed
    THEN Abort(ErrAt(Handle("RuntimeError", f.retried), "RuntimeError", <<>>,
                     f),
               tok, dInval)
    ELSE Outcome(Append(base, f), "pending", NoVal, NoToken, NoErr, tok,
                 1, IF f.ep = "signIn" THEN 1 ELSE 0, dInval)

\* `return json_response` of the innermost request().  A retried request
\* returns through the call that re-issued it.  A signIn body goes to
\* get_token and the token property, which caches the token; inside the
\* except block the request is then re-issued with that token.
ReturnedKeepsCache(stk, r, tokNow, isClosed) ==
    LET top == stk[Len(stk)]
        base == SubSeq(stk, 1, Len(stk) - (IF top.retried THEN 2 ELSE 1))
    IN  IF top.ep = "signIn"
        THEN IF r.token = NoToken
             THEN Abort(Err("KworkAuthException", "get_token", <<>>), tokNow, 0)
             ELSE IF base = <<>>
             THEN Outcome(<<>>, "ok", r, r.token, NoErr, tokNow, 0, 0, 0)
             ELSE Issue(base,
                        Frame(base[Len(base)].ep, base[Len(base)].page,
                              r.token, TRUE),
                        tokNow, isClosed, 0)
        ELSE Outcome(<<>>, "ok", r, NoToken, NoErr, tokNow, 0, 0, 0)

\* The outer request() drops the body of the request it re-issued.
ReturnedDropsBody(stk, r, tokNow, isClosed) ==
    LET s == ReturnedKeepsCache(stk, r, r.token, isClosed)
    IN  IF stk[Len(stk)].retried /\ s.out = "ok"
        THEN [s EXCEPT !.val = NoVal, !.tok = tokNow]
        ELSE [s EXCEPT !.tok = IF stk[Len(stk)].ep = "signIn" /\ r.token # NoToken
                                THEN r.token ELSE tokNow]

\* get_token without `if not token: raise`.
ReturnedAnyToken(stk, r, tokNow, isClosed) ==
    LET top == stk[Len(stk)]
        base == SubSeq(stk, 1, Len(stk) - (IF top.retried THEN 2 ELSE 1))
    IN  IF top.ep = "signIn"
        THEN IF base = <<>>
             THEN Outcome(<<>>, "ok", r, r.token, NoErr, r.token, 0, 0, 0)
             ELSE Issue(base,
                        Frame(base[Len(base)].ep, base[Len(base)].page,
                              r.token, TRUE),
                        r.token, isClosed, 0)
        ELSE Outcome(<<>>, "ok", r, NoToken, NoErr, tokNow, 0, 0, 0)

Returned(stk, r, tokNow, isClosed) ==
    LET top == stk[Len(stk)]
        base == SubSeq(stk, 1, Len(stk) - (IF top.retried THEN 2 ELSE 1))
    IN  IF top.ep = "signIn"
        THEN IF r.token = NoToken
             THEN Abort(Err("KworkAuthException", "get_token", <<>>), tokNow, 0)
             ELSE IF base = <<>>
             THEN Outcome(<<>>, "ok", r, r.token, NoErr, r.token, 0, 0, 0)
             ELSE Issue(base,
                        Frame(base[Len(base)].ep, base[Len(base)].page,
                              r.token, TRUE),
                        r.token, isClosed, 0)
        ELSE Outcome(<<>>, "ok", r, NoToken, NoErr, tokNow, 0, 0, 0)

\* The response `r` reaches the innermost request() of `stk`.
Step(stk, r, tokNow, isClosed) ==
    LET top == stk[Len(stk)]
        exc == RaisedInTry(r)
        h == Handle(exc, top.retried)
    IN  CASE exc = "none" -> Returned(stk, r, tokNow, isClosed)
          [] exc # "none" /\ h = "recover" ->
                 \* self._token = None; await self.token -> get_token()
                 Issue(stk, Frame("signIn", 0, NoToken, FALSE), NoToken,
                       isClosed, 1)
          [] OTHER ->
                 Abort(ErrAt(h, exc,
                             IF r.kind = "json" THEN ErrorMsg(r) ELSE <<>>, top),
                       tokNow, 0)

\* ---------------------------------------------------------- arguments
\* The values a caller passes: None, an int, a str of n characters, a list of
\* n elements.
PyNone == [type |-> "none", n |-> 0]
PyInt(k) == [type |-> "int", n |-> k]
PyStr(k) == [type |-> "str", n |-> k]
PyList(k) == [type |-> "list", n |-> k]

\* The truth value of x in `not x` and `x or y`.
Truthy(x) == x.type # "none" /\ x.n # 0

\* The arguments of send_message (user_id, text), of get_projects
\* (categories_ids, page) and of a request() the caller makes itself
\* (api_method, full_url).
NoArgs == [user_id |-> PyNone, text |-> PyNone, categories_ids |-> PyNone,
           page |-> PyNone, api_method |-> PyNone, full_url |-> PyNone]

\* ------------------------------------------------------------ bookkeeping
\* No body yet.
NoBody == Transport("none")

\* args (the caller's arguments), tok, page, pages (total_pages), first
\* (first_page_data) and acc (results, dialogs) are the locals of the code; sizes (the number of records of each
\* page the sequential loop was answered with) and failed (the page whose
\* request raised, 0 for none) are kept for the claims.
NoLoc == [tok |-> NoToken, page |-> 0, pages |-> 0, first |-> NoBody,
          acc |-> <<>>, sizes |-> <<>>, failed |-> 0, args |-> NoArgs]
NoResult == [st |-> "none", val |-> NoVal, tokv |-> NoToken, recs |-> <<>>,
             err |-> NoErr]
NoCnt == [net |-> 0, signIn |-> 0, inval |-> 0, calls |-> 0]

Ok(val, tokv, recs) ==
    [st |-> "ok", val |-> val, tokv |-> tokv, recs |-> recs, err |-> NoErr]
Raised(e) ==
    [st |-> "err", val |-> NoVal, tokv |-> NoToken, recs |-> <<>>, err |-> e]

InFlight(t) == stack[t] # <<>>
Top(t) == stack[t][Len(stack[t])]

Count(c, s) ==
    [c EXCEPT !.net = @ + s.dNet, !.signIn = @ + s.dSign,
              !.inval = @ + s.dInval]

\* The responses of a chain are kept for the get_me-style calls, whose claims
\* read them, each with the parameters its request was sent with (`sent`) and
\* the parameters request() wrote to the debug log for it (`debug`); a
\* paginated call keeps its pages' results instead.
Logged(t, r) ==
    IF prog[t] = "call"
    THEN Append(log[t], [ep |-> Top(t).ep, retried |-> Top(t).retried,
                         exc |-> RaisedInTry(r), resp |-> r,
                         sent |-> Params(Top(t)),
                         debug |-> LogParams(Params(Top(t)))])
    ELSE log[t]

SetTask(t, stk, newpc, newloc, res, c, lg) ==
    /\ stack' = [stack EXCEPT ![t] = stk]
    /\ pc' = [pc EXCEPT ![t] = newpc]
    /\ loc' = [loc EXCEPT ![t] = newloc]
    /\ result' = [result EXCEPT ![t] = res]
    /\ cnt' = [cnt EXCEPT ![t] = c]
    /\ log' = [log EXCEPT ![t] = lg]

\* The coroutine of task t calls request() itself: a new chain, counted from
\* here on.
Call(t, f, newpc, newloc) ==
    LET s == Issue(<<>>, f, token', closed, 0)
        c == [NoCnt EXCEPT !.calls = cnt[t].calls + 1, !.net = s.dNet]
    IN  IF s.out = "err"
        THEN SetTask(t, <<>>, "done", newloc, Raised(s.err), c, <<>>)
        ELSE SetTask(t, s.stack, newpc, newloc, result[t], c, <<>>)

\* The coroutine of task t returns or raises.
Finish(t, res, c, lg) == SetTask(t, <<>>, "done", loc[t], res, c, lg)

\* ------------------------------------------------------ the token property
\* `await self.token` with a cached token does not suspend: the caller goes on
\* in the same step.  With an empty cache get_token() issues the signIn
\* request and the caller waits in "token".
TokenMiss(t) ==
    LET s == Issue(<<>>, Frame("signIn", 0, NoToken, FALSE), token, closed, 0)
    IN  /\ token' = token
        /\ IF s.out = "err"
           THEN Finish(t, Raised(s.err), NoCnt, <<>>)
           ELSE SetTask(t, s.stack, "token", loc[t], result[t],
                        [NoCnt EXCEPT !.net = 1, !.signIn = 1], <<>>)

\* What the caller does with the token it read: t's coroutine goes on with
\* its first request(), or (a bare read) returns the token.
WithToken(t, tk) ==
    CASE prog[t] = "read" ->
             Finish(t, Ok(NoVal, tk, <<>>), cnt[t], log[t])
      [] prog[t] = "call" ->
             Call(t, Frame("actor", 0, tk, FALSE), "call", loc[t])
      [] prog[t] = "fetch" ->
             Call(t, Frame("inboxes", 1, tk, FALSE), "page1",
                  [loc[t] EXCEPT !.tok = tk])
      [] prog[t] = "dialogs" ->
             Call(t, Frame("dialogs", 1, tk, FALSE), "loop",
                  [loc[t] EXCEPT !.tok = tk, !.page = 1])
      [] prog[t] = "send" ->
             Call(t, Frame("inboxCreate", 0, tk, FALSE), "call", loc[t])
      [] prog[t] = "projects" ->
             IF loc[t].args.page.type # "none"
             THEN Call(t, Frame("projects", loc[t].args.page.n, tk, FALSE),
                       "call", loc[t])
             ELSE Call(t, Frame("projects", 1, tk, FALSE), "page1",
                       [loc[t] EXCEPT !.tok = tk])

\* `if not text or not user_id`, `if not categories_ids`
RejectsNothing(t) == FALSE

Rejects(t) ==
    CASE prog[t] = "send" ->
             ~Truthy(loc[t].args.text) \/ ~Truthy(loc[t].args.user_id)
      [] prog[t] = "projects" -> ~Truthy(loc[t].args.categories_ids)
      [] OTHER -> FALSE

\* A coroutine starts: send_message and get_projects check their arguments,
\* and every public method reads the token first.
Start(t) ==
    /\ pc[t] = "start"
    /\ prog[t] \in {"read", "call", "fetch", "dialogs", "send", "projects"}
    /\ IF Rejects(t)
       THEN /\ token' = token
            /\ Finish(t, Raised(Err("KworkValidationException", "arguments",
                                    <<>>)),
                      cnt[t], log[t])
       ELSE IF token # NoToken
       THEN token' = token /\ WithToken(t, token)
       ELSE TokenMiss(t)
    /\ UNCHANGED <<closed, sessCloses, prog, settled>>

\* ------------------------------------------------------------- request()
\* `if not (api_method or full_url)`
HasNoTarget(a) == ~(Truthy(a.api_method) \/ Truthy(a.full_url))

\* The caller calls request() itself, without a token parameter: without an
\* endpoint name and a URL it raises before the try block, otherwise the
\* network call is made to `full_url or BASE_URL.format(api_method)`.
RequestCall(t) ==
    /\ pc[t] = "start"
    /\ prog[t] = "raw"
    /\ token' = token
    /\ IF HasNoTarget(loc[t].args)
       THEN Finish(t, Raised(Err("KworkApiException", "request", <<>>)),
                   [NoCnt EXCEPT !.calls = cnt[t].calls + 1], <<>>)
       ELSE Call(t, Frame(IF Truthy(loc[t].args.full_url) THEN "full_url"
                          ELSE "api_method",
                          0, NoToken, FALSE),
                 "call", loc[t])
    /\ UNCHANGED <<closed, sessCloses, prog, settled>>

\* A response that leaves the chain waiting for another network call: the
\* signIn of a refresh, or the re-issued request.
Nested(t, r, depth) ==
    /\ InFlight(t)
    /\ LET s == Step(stack[t], r, token, closed)
       IN  /\ s.out = "pending"
           /\ Len(s.stack) <= depth
           /\ token' = s.tok
           /\ SetTask(t, s.stack, pc[t], loc[t], result[t], Count(cnt[t], s),
                      Logged(t, r))
    /\ UNCHANGED <<closed, sessCloses, prog, settled>>

\* The token read a coroutine started with comes back.
TokenReady(t, r) ==
    /\ InFlight(t)
    /\ pc[t] = "token"
    /\ LET s == Step(stack[t], r, token, closed)
       IN  /\ s.out # "pending"
           /\ token' = s.tok
           /\ IF s.out = "ok"
              THEN IF prog[t] = "read"
                   THEN Finish(t, Ok(NoVal, s.tokv, <<>>), Count(cnt[t], s),
                               Logged(t, r))
                   ELSE WithToken(t, s.tokv)
              ELSE Finish(t, Raised(s.err), Count(cnt[t], s), Logged(t, r))
    /\ UNCHANGED <<closed, sessCloses, prog, settled>>

\* get_me and the other single-request methods: the request returns or raises.
CallDone(t, r) ==
    /\ InFlight(t)
    /\ prog[t] \in {"call", "send", "projects", "raw"}
    /\ pc[t] = "call"
    /\ LET s == Step(stack[t], r, token, closed)
       IN  /\ s.out # "pending"
           /\ token' = s.tok
           /\ Finish(t, IF s.out = "ok" THEN Ok(s.val, NoToken, <<>>)
                        ELSE Raised(s.err),
                     Count(cnt[t], s), Logged(t, r))
    /\ UNCHANGED <<closed, sessCloses, prog, settled>>

\* ------------------------------------------------------------- the server
Messages == {MsgLimit, MsgAuthLimit, MsgAuth, MsgToken, MsgOther}

AllFailures ==
    {JsonFail(TRUE, m) : m \in Messages} \cup {JsonFail(FALSE, <<>>)}
    \cup {Transport(k) : k \in {"neterr", "timeout", "nonjson", "badjson"}}

\* One failure of each kind the handler tells apart.
SomeFailures == {JsonFail(TRUE, MsgAuth), JsonFail(TRUE, MsgOther)}

SignInBodies == {JsonOk(0, NoPaging, k) : k \in {NoToken} \cup Tokens}

Pagings ==
    {NoPaging, EmptyPaging, PagingNoCount} \cup {PagingOf(k) : k \in 0..MaxPages}

\* The bodies a request to endpoint f.ep can be answered with.  Only page 1
\* of a paginated endpoint has its paging metadata read.
Bodies(f) ==
    CASE f.ep = "signIn" -> SignInBodies
      [] f.ep \in {"inboxes", "projects"} /\ f.page = 1 ->
             {JsonOk(n, pg, NoToken) : n \in 0..MaxItems, pg \in Pagings}
      [] f.ep = "dialogs" ->
             {JsonOk(n, NoPaging, NoToken) : n \in 0..MaxDialogs}
      [] OTHER -> {JsonOk(n, NoPaging, NoToken) : n \in 0..MaxItems}

\* A server: the failures it answers a signIn request and any other request
\* with.  The paginated calls are checked against a server whose signIn is
\* not answered with an AuthError: that case nests sign-ins, which the single
\* calls cover.
AnyServer == [api |-> AllFailures, signIn |-> AllFailures]
PagedServer == [api |-> SomeFailures, signIn |-> {JsonFail(TRUE, MsgOther)}]

Answers(t, srv) ==
    IF InFlight(t)
    THEN Bodies(Top(t)) \cup (IF Top(t).ep = "signIn" THEN srv.signIn ELSE srv.api)
    ELSE {}

\* --------------------------------------------------- single requests
\* The client after __init__, and coroutines that have not started; args are
\* the arguments of task 1's call.
InitCalls(progs, args) ==
    /\ token = NoToken
    /\ closed = FALSE
    /\ sessCloses = 0
    /\ prog = progs
    /\ pc = [t \in DOMAIN progs |-> "start"]
    /\ stack = [t \in DOMAIN progs |-> <<>>]
    /\ loc = [t \in DOMAIN progs |->
                 IF t = 1 THEN [NoLoc EXCEPT !.args = args] ELSE NoLoc]
    /\ result = [t \in DOMAIN progs |-> NoResult]
    /\ cnt = [t \in DOMAIN progs |-> NoCnt]
    /\ settled = <<>>
    /\ log = [t \in DOMAIN progs |-> <<>>]

InitTasks(progs) == InitCalls(progs, NoArgs)

InitRequest == InitTasks([t \in {1} |-> "call"])

\* The transport answers the network call in flight of some task.
Begin == \E t \in Task : Start(t)
Refresh(srv, depth) ==
    \E t \in Task : \E r \in Answers(t, srv) : Nested(t, r, depth)
GotToken(srv) ==
    \E t \in Task : \E r \in Answers(t, srv) : TokenReady(t, r)
Answered(srv) ==
    \E t \in Task : \E r \in Answers(t, srv) : CallDone(t, r)

NextRequest ==
    \/ Begin
    \/ Refresh(AnyServer, MaxDepth)
    \/ GotToken(AnyServer)
    \/ Answered(AnyServer)

SpecRequest == InitRequest /\ [][NextRequest]_vars

\* ------------------------------------------------ claims on request()
\* The responses the current request() chain of task t received from the
\* endpoint `ep`.
Attempts(t, ep) == {i \in 1..Len(log[t]) : log[t][i].ep = ep}
Last(t) == log[t][Len(log[t])]

\* A finished get_me-style call whose request was first answered with an
\* AuthError and whose re-issued request was answered with a success body.
AuthThenSuccess(t) ==
    /\ prog[t] = "call" /\ pc[t] = "done"
    /\ Len(log[t]) >= 2
    /\ log[t][1].ep = "actor" /\ ~log[t][1].retried
    /\ log[t][1].exc = "KworkAuthException"
    /\ Last(t).ep = "actor" /\ Last(t).retried /\ Last(t).exc = "none"

\* C1 as stated: a call that received one AuthError and then a success returns
\* the successful payload after exactly two network calls in total.
C1_TwoCallsInTotal ==
    \A t \in Task :
        AuthThenSuccess(t) =>
            /\ result[t].st = "ok"
            /\ result[t].val = Last(t).resp
            /\ cnt[t].net = 2

\* C1 amended: a call that received one AuthError and then a success returns
\* the successful payload of the re-issued request; its endpoint was requested
\* exactly twice, and the token refresh in between made at least one signIn
\* request, so at least three network calls were made.
C1_TwoCallsPlusSignIn ==
    \A t \in Task :
        AuthThenSuccess(t) =>
            /\ result[t].st = "ok"
            /\ result[t].val = Last(t).resp
            /\ Cardinality(Attempts(t, "actor")) = 2
            /\ cnt[t].signIn >= 1
            /\ cnt[t].net = 2 + cnt[t].signIn
            /\ cnt[t].signIn = Cardinality(Attempts(t, "signIn"))

C1_Witness ==
    \E t \in Task :
        /\ AuthThenSuccess(t)
        /\ cnt[t].net = 3
        /\ result[t].val.n > 0

\* The re-issued request (retried = true) of task t's call was answered with
\* an AuthError.
AuthTwice(t) ==
    /\ prog[t] = "call"
    /\ Len(log[t]) >= 2
    /\ log[t][1].ep = "actor" /\ log[t][1].exc = "KworkAuthException"
    /\ Last(t).ep = "actor" /\ Last(t).retried
    /\ Last(t).exc = "KworkAuthException"

OnlyAuthErrors(t) ==
    /\ log[t] # <<>>
    /\ \A i \in 1..Len(log[t]) : log[t][i].exc = "KworkAuthException"

\* C3: under persistent authentication failure a call makes a bounded number of
\* network calls (the request, one signIn, at most one re-issued request) and
\* then raises; a signIn answered with an AuthError starts no further signIn.
C3_BoundedUnderPersistentAuthFailure ==
    \A t \in Task :
        OnlyAuthErrors(t) =>
            /\ cnt[t].net <= 3
            /\ (Last(t).ep = "signIn" => pc[t] = "done" /\ result[t].st = "err")

\* ------------------------------------------- claims on classification
\* The message has the word w in it, in any letter case: somewhere each of its
\* characters is the letter of w or that letter's capital.
HasWord(msg, w) ==
    \E i \in 1..(Len(msg) - Len(w) + 1) :
        \A j \in 1..Len(w) :
            \/ msg[i + j - 1] = w[j]
            \/ \E k \in 1..Len(LowerCase) :
                   LowerCase[k] = w[j] /\ Upper[k] = msg[i + j - 1]

\* The failure kind the claim gives a message.
KindOfMessage(msg) ==
    IF HasWord(msg, StrLimit) THEN "KworkRateLimitException"
    ELSE IF HasWord(msg, StrAuth) \/ HasWord(msg, StrToken)
    THEN "KworkAuthException"
    ELSE "KworkApiException"

\* The responses task t's chain received whose success flag is false.
ReportedFailures(t) ==
    {i \in 1..Len(log[t]) :
        log[t][i].resp.kind = "json" /\ ~log[t][i].resp.success}

\* C11: the kind of a response whose success flag is false depends on its
\* error message alone: RateLimit when the message has "limit" in it in any
\* letter case, also next to "auth" or "token"; otherwise Auth when it has
\* "auth" or "token" in it; otherwise Generic, a missing message included.
\* Neither the endpoint nor the retried flag changes the kind.
C11_ClassifiedByMessage ==
    \A t \in Task :
        \A i \in ReportedFailures(t) :
            LET e == log[t][i]
            IN  /\ e.resp.hasError => e.exc = KindOfMessage(e.resp.error)
                /\ ~e.resp.hasError => e.exc = "KworkApiException"
                /\ e.resp.error = MsgAuthLimit =>
                       e.exc = "KworkRateLimitException"
                /\ e.resp.error = MsgLimit => e.exc = "KworkRateLimitException"
                /\ e.resp.error \in {MsgAuth, MsgToken} =>
                       e.exc = "KworkAuthException"

\* A request was answered with "AUTH", and after the refresh the re-issued
\* request with a message that has both "auth" and "limit" in it.
C11_Witness ==
    \E t \in Task :
        \E i, j \in ReportedFailures(t) :
            /\ ~log[t][i].retried /\ log[t][i].resp.error = MsgAuth
            /\ log[t][i].exc = "KworkAuthException"
            /\ log[t][j].retried /\ log[t][j].resp.error = MsgAuthLimit
            /\ log[t][j].exc = "KworkRateLimitException"

\* --------------------------------------- claims on what request() raises
\* The get_me-style call of task t has raised, and Last(t) is the response
\* that made it raise.
CallRaised(t) ==
    /\ prog[t] = "call" /\ pc[t] = "done" /\ result[t].st = "err"
    /\ log[t] # <<>>

\* C12: the error the caller observes has the kind that was raised inside
\* request(): KworkRateLimitException for a response classified as a rate
\* limit, KworkApiException with the original message for any other reported
\* failure that is not an AuthError and for a content type that is not JSON.
C12_RaisedKindReachesCaller ==
    \A t \in Task :
        CallRaised(t) =>
            /\ Last(t).exc = "KworkRateLimitException" =>
                   result[t].err.cls = "KworkRateLimitException"
            /\ Last(t).exc = "KworkApiException" =>
                   result[t].err.cls = "KworkApiException"
            /\ (Last(t).resp.kind = "json"
                /\ Last(t).exc \in {"KworkRateLimitException",
                                     "KworkApiException"}) =>
                   result[t].err.msg = ErrorMsg(Last(t).resp)

\* The exceptions of the try block that are no AuthError.
OtherFailures ==
    {"KworkRateLimitException", "KworkApiException", "ClientError",
     "TimeoutError", "JSONDecodeError"}

\* Task t's chain receives, in this step, a response that fails with
\* something other than an AuthError.
FailsOtherwise(t) ==
    /\ prog[t] = "call" /\ InFlight(t)
    /\ Len(log'[t]) = Len(log[t]) + 1
    /\ log'[t][Len(log'[t])].exc \in OtherFailures

\* C13: a request that fails with a rate limit, a generic or protocol failure,
\* a network error or a timeout is not followed by anything: the call raises in
\* the same step, with no further network call, no signIn and no invalidation,
\* and the cached token is what it was.  When it is the first response of the
\* call, the call has made exactly one network call.
C13_OnlyAuthErrorRecovers ==
    [][\A t \in Task :
           FailsOtherwise(t) =>
               /\ pc'[t] = "done" /\ ~InFlight(t)'
               /\ result'[t].st = "err"
               /\ cnt'[t].net = cnt[t].net
               /\ cnt'[t].signIn = cnt[t].signIn
               /\ cnt'[t].inval = cnt[t].inval
               /\ token' = token
               /\ (pc[t] = "call" /\ log[t] = <<>>) =>
                      /\ cnt'[t].net = 1 /\ cnt'[t].signIn = 0
                      /\ cnt'[t].inval = 0]_vars

\* A call answered with a rate limit has raised after one network call, with
\* the token an earlier signIn cached still in the cache.
C13_Witness ==
    \E t \in Task :
        /\ CallRaised(t) /\ Len(log[t]) = 1
        /\ Last(t).exc = "KworkRateLimitException"
        /\ cnt[t].net = 1 /\ cnt[t].signIn = 0
        /\ token # NoToken

\* C18: one call chain (a request() call of the caller, or the signIn of a
\* token read, with the refresh and the re-issued request it triggers)
\* invalidates the cached token at most once and makes at most one signIn
\* request, also when the signIn request is answered with an AuthError.
C18_OneRefreshPerChain ==
    \A t \in Task : cnt[t].inval <= 1 /\ cnt[t].signIn <= 1

\* ------------------------------------------------- claims on redaction
\* A parameter map that shows neither a password nor a token.
Redacted(params) ==
    /\ params.token \in {Absent, Stars}
    /\ params.password \in {Absent, Stars}

\* C16: for the first attempt, the re-issued request and signIn alike, the
\* parameters written to the debug log and the parameters in the request_info
\* of the error the caller gets have '***' for password and token, and
\* nothing else is changed; the request itself was sent with the password of
\* the client (signIn) and with a token (any other request), the re-issued
\* one with the token the signIn before it returned.
C16_SecretsAreRedacted ==
    \A t \in Task :
        /\ Redacted(result[t].err.info.params)
        /\ \A i \in 1..Len(log[t]) :
               LET e == log[t][i]
               IN  /\ Redacted(e.debug)
                   /\ e.debug.page = e.sent.page
                   /\ e.sent.token # Absent => e.debug.token = Stars
                   /\ e.sent.password # Absent => e.debug.password = Stars
                   /\ IF e.ep = "signIn"
                      THEN /\ e.sent.password = Password
                           /\ ~e.retried => e.sent.token = Absent
                      ELSE e.sent.password = Absent /\ e.sent.token \in Tokens
                   /\ e.retried =>
                          /\ i > 1 /\ log[t][i - 1].ep = "signIn"
                          /\ e.sent.token = log[t][i - 1].resp.token
        /\ (result[t].st = "err" /\ log[t] # <<>>
            /\ result[t].err.cause \notin {"get_token", "RuntimeError"}) =>
               /\ result[t].err.info.url = Last(t).ep
               /\ result[t].err.info.params = Last(t).debug

\* A call whose request, signIn and re-issued request were all sent, and
\* whose re-issued request raised an error with the token starred.
C16_Witness ==
    \E t \in Task :
        /\ CallRaised(t) /\ Len(log[t]) = 3
        /\ ~log[t][1].retried /\ log[t][1].sent.token \in Tokens
        /\ log[t][2].ep = "signIn" /\ log[t][2].sent.password = Password
        /\ log[t][3].retried /\ log[t][3].sent.token \in Tokens
        /\ log[t][3].sent.token # log[t][1].sent.token
        /\ result[t].err.info.params.token = Stars

\* ------------------------------------------------ _fetch_paginated_data
\* `not paging or paging.get("pages", 1) <= 1`
SinglePageNoDefault(paging) == paging.kind = "count" /\ paging.pages <= 1

SinglePage(paging) ==
    \/ paging.kind \in {"absent", "empty"}
    \/ (IF paging.kind = "count" THEN paging.pages ELSE 1) <= 1

\* The task that gather() makes of the request for page p.
PageTask(p) == p

\* range(2, total_pages + 1)
FanOutPages(n) == 2..n

\* Page 1 returns or raises.  With more than one page the requests for pages
\* 2..N are created and started together; each runs up to its network call.
Page1Done(t, r) ==
    /\ InFlight(t)
    /\ prog[t] \in {"fetch", "projects"}
    /\ pc[t] = "page1"
    /\ LET s == Step(stack[t], r, token, closed)
           n == s.val.paging.pages
           first == Records(1, s.val.n)
           c == Count(cnt[t], s)
           born == {PageTask(p) : p \in FanOutPages(n)}
           seen == [loc[t] EXCEPT !.first = s.val]
       IN  /\ s.out # "pending"
           /\ token' = s.tok
           /\ IF s.out = "err"
              THEN SetTask(t, <<>>, "done", [loc[t] EXCEPT !.failed = 1],
                           Raised(s.err), c, Logged(t, r))
                   /\ settled' = settled
              ELSE IF SinglePage(s.val.paging)
              THEN SetTask(t, <<>>, "done", seen, Ok(s.val, NoToken, first),
                           c, Logged(t, r))
                   /\ settled' = settled
              ELSE IF s.val.paging.kind # "count"
              THEN \* total_pages = paging["pages"] without that key
                   SetTask(t, <<>>, "done", seen,
                           Raised(Err("KeyError", "KeyError", <<>>)), c,
                           Logged(t, r))
                   /\ settled' = settled
              ELSE /\ stack' = [u \in Task |->
                          IF u \in born /\ ~closed
                          THEN <<Frame(Top(t).ep, u, loc[t].tok, FALSE)>>
                          ELSE IF u = t THEN <<>> ELSE stack[u]]
                   /\ pc' = [u \in Task |->
                          IF u \in born
                          THEN (IF closed THEN "done" ELSE "page")
                          ELSE IF u = t THEN "gather" ELSE pc[u]]
                   /\ loc' = [loc EXCEPT ![t] = [seen EXCEPT !.pages = n,
                                                              !.acc = first]]
                   /\ result' = [u \in Task |->
                          IF u \in born /\ closed
                          THEN Raised(ErrAt(Handle("RuntimeError", FALSE),
                                            "RuntimeError", <<>>,
                                            Frame(Top(t).ep, u, loc[t].tok,
                                                  FALSE)))
                          ELSE result[u]]
                   /\ cnt' = [u \in Task |->
                          IF u \in born
                          THEN [NoCnt EXCEPT !.calls = 1,
                                             !.net = IF closed THEN 0 ELSE 1]
                          ELSE IF u = t
                          THEN [NoCnt EXCEPT !.calls = c.calls + (n - 1)]
                          ELSE cnt[u]]
                   /\ log' = log
                   /\ settled' = IF closed THEN [i \in 1..(n - 1) |-> i + 1]
                                 ELSE <<>>
    /\ UNCHANGED <<closed, sessCloses, prog>>

\* The request of one page of the fan-out returns or raises: its task is done,
\* and gather() keeps its result.
PageSettled(t, r) ==
    /\ InFlight(t)
    /\ prog[t] = "page"
    /\ pc[t] = "page"
    /\ LET s == Step(stack[t], r, token, closed)
       IN  /\ s.out # "pending"
           /\ token' = s.tok
           /\ Finish(t, IF s.out = "ok"
                        THEN Ok(s.val, NoToken, Records(Top(t).page, s.val.n))
                        ELSE Raised(s.err),
                     [NoCnt EXCEPT !.calls = 1], log[t])
           /\ settled' = Append(settled, t)
    /\ UNCHANGED <<closed, sessCloses, prog>>

\* What gather(*tasks, return_exceptions=True) returns: one entry per task, in
\* the order of the tasks.
GatherInCompletionOrder(t) == [i \in 1..Len(settled) |-> result[settled[i]]]

Gathered(t) == [i \in 1..(loc[t].pages - 1) |-> result[PageTask(i + 1)]]

\* The merge loop: an exception is logged and skipped, a body extends results.
RECURSIVE MergedFailFast(_, _)
MergedFailFast(acc, responses) ==
    IF responses = <<>> \/ Head(responses).st = "err" THEN acc
    ELSE MergedFailFast(acc \o Head(responses).recs, Tail(responses))

RECURSIVE Merged(_, _)
Merged(acc, responses) ==
    IF responses = <<>> THEN acc
    ELSE Merged(IF Head(responses).st = "err" THEN acc
                ELSE acc \o Head(responses).recs,
                Tail(responses))

\* gather() is done once every task is: the fetch goes on and merges.
\* (Without return_exceptions the first exception would end it.)
JoinFailFast(t) ==
    /\ prog[t] \in {"fetch", "projects"}
    /\ pc[t] = "gather"
    /\ \/ \A p \in 2..loc[t].pages : pc[PageTask(p)] = "done"
       \/ \E p \in 2..loc[t].pages : result[PageTask(p)].st = "err"
    /\ IF \E p \in 2..loc[t].pages : result[PageTask(p)].st = "err"
       THEN Finish(t, Raised(result[CHOOSE p \in 2..loc[t].pages :
                                       result[PageTask(p)].st = "err"].err),
                   cnt[t], log[t])
       ELSE Finish(t, Ok(NoVal, NoToken, Merged(loc[t].acc, Gathered(t))),
                   cnt[t], log[t])
    /\ UNCHANGED <<token, closed, sessCloses, prog, settled>>

Join(t) ==
    /\ prog[t] \in {"fetch", "projects"}
    /\ pc[t] = "gather"
    /\ \A p \in 2..loc[t].pages : pc[PageTask(p)] = "done"
    /\ Finish(t, Ok(NoVal, NoToken, Merged(loc[t].acc, Gathered(t))),
              cnt[t], log[t])
    /\ UNCHANGED <<token, closed, sessCloses, prog, settled>>

\* ------------------------------------------------------- get_all_dialogs
\* A page of the sequential loop returns or raises: an empty page ends the
\* loop, any other page is appended and the next page is requested with the
\* token read before the loop.
\* `if not dialogs_page["response"]: break`
LoopEndsEarly(body) == body.n <= 1

LoopEnds(body) == body.n = 0

DialogsPage(t, r) ==
    /\ InFlight(t)
    /\ prog[t] = "dialogs"
    /\ pc[t] = "loop"
    /\ LET s == Step(stack[t], r, token, closed)
           l == [loc[t] EXCEPT !.sizes = Append(@, s.val.n)]
       IN  /\ s.out # "pending"
           /\ token' = s.tok
           /\ IF s.out = "err"
              THEN SetTask(t, <<>>, "done",
                           [loc[t] EXCEPT !.failed = loc[t].page],
                           Raised(s.err), Count(cnt[t], s), Logged(t, r))
              ELSE IF LoopEnds(s.val)
              THEN SetTask(t, <<>>, "done", l, Ok(NoVal, NoToken, loc[t].acc),
                           Count(cnt[t], s), Logged(t, r))
              ELSE /\ loc[t].page < MaxSeqPage
                   /\ Call(t, Frame("dialogs", loc[t].page + 1, loc[t].tok, FALSE),
                           "loop",
                           [l EXCEPT !.acc = @ \o Records(loc[t].page, s.val.n),
                                     !.page = @ + 1])
    /\ UNCHANGED <<closed, sessCloses, prog, settled>>

\* ----------------------------------------------------- paginated calls
\* get_projects(categories_ids=[c]) without a page: the concurrent fetch.
AllProjects == [NoArgs EXCEPT !.categories_ids = PyList(1)]

\* One client runs either get_dialog_with_user or get_projects without a page
\* (the concurrent fetch, task 1 and one task per further page) or
\* get_all_dialogs (the sequential loop).
InitPaged ==
    \E main \in {"fetch", "dialogs", "projects"} :
        InitCalls([t \in 1..MaxPages |-> IF t = 1 THEN main ELSE "page"],
                  IF main = "projects" THEN AllProjects ELSE NoArgs)

Page1Answered(srv) ==
    \E t \in Task : \E r \in Answers(t, srv) : Page1Done(t, r)
PageAnswered(srv) ==
    \E t \in Task : \E r \in Answers(t, srv) : PageSettled(t, r)
Joined == \E t \in Task : Join(t)
DialogsAnswered(srv) ==
    \E t \in Task : \E r \in Answers(t, srv) : DialogsPage(t, r)

NextPaged ==
    \/ Begin
    \/ Refresh(PagedServer, MaxDepth)
    \/ GotToken(PagedServer)
    \/ Page1Answered(PagedServer)
    \/ PageAnswered(PagedServer)
    \/ Joined
    \/ DialogsAnswered(PagedServer)

SpecPaged == InitPaged /\ [][NextPaged]_vars

\* ------------------------------------------- claims on paginated calls
RECURSIVE PagesInOrder(_, _, _)
\* The records of the pages lo..hi that satisfy `has`, page after page;
\* size[p] is the number of records of page p.
PagesInOrder(lo, hi, size) ==
    IF lo > hi THEN <<>>
    ELSE Records(lo, size[lo]) \o PagesInOrder(lo + 1, hi, size)

\* The number of records page p contributed to the concurrent fetch t: those
\* of the body its request returned, none when the request raised.
FetchedSize(t) ==
    [p \in 1..loc[t].pages |->
        IF p = 1 THEN loc[t].first.n
        ELSE IF result[PageTask(p)].st = "ok" THEN result[PageTask(p)].val.n
        ELSE 0]

\* The concurrent fetch t went through the fan-out and has returned or raised.
FannedOut(t) == prog[t] = "fetch" /\ pc[t] = "done" /\ loc[t].pages > 1

\* C4: when page 1 reports N > 1 pages the fetch returns, without raising,
\* the records of page 1 and of the pages of 2..N whose request succeeded, in
\* ascending page order, whichever pages failed and in whatever order the
\* requests completed.
C4_MergeInPageOrder ==
    \A t \in Task :
        FannedOut(t) =>
            /\ result[t].st = "ok"
            /\ result[t].recs = PagesInOrder(1, loc[t].pages, FetchedSize(t))
            /\ \A i, j \in 1..Len(result[t].recs) :
                   i < j => \/ result[t].recs[i][1] < result[t].recs[j][1]
                            \/ /\ result[t].recs[i][1] = result[t].recs[j][1]
                               /\ result[t].recs[i][2] < result[t].recs[j][2]

\* Pages 1 and 2 returned records, page 3 completed first, and the fetch
\* returned.
C4_Witness ==
    \E t \in Task :
        /\ FannedOut(t) /\ loc[t].pages = 3
        /\ settled = <<PageTask(3), PageTask(2)>>
        /\ result[PageTask(2)].st = "ok" /\ result[PageTask(2)].val.n > 0
        /\ result[PageTask(3)].st = "ok" /\ result[PageTask(3)].val.n > 0
        /\ loc[t].first.n > 0

\* The body of page 1 of the concurrent fetch t has been returned, and it has
\* no paging metadata (none, or an empty object), or metadata without a page
\* count or with a count of at most 1.
OnePageReported(t) ==
    /\ prog[t] = "fetch"
    /\ loc[t].first.kind = "json"
    /\ \/ loc[t].first.paging.kind \in {"absent", "empty", "nocount"}
       \/ loc[t].first.paging.pages <= 1

\* C5: when the body of page 1 has no paging metadata, or metadata without a
\* page count or with a count of at most 1, the fetch calls request() exactly
\* once, starts no request for a further page, and returns the records of
\* that body.
C5_SinglePageSingleRequest ==
    \A t \in Task :
        OnePageReported(t) =>
            /\ pc[t] = "done"
            /\ result[t].st = "ok"
            /\ cnt[t].calls = 1
            /\ result[t].recs = Records(1, loc[t].first.n)
            /\ \A u \in Task : prog[u] = "page" => pc[u] = "start" /\ cnt[u] = NoCnt

C5_Witness ==
    \E t \in Task :
        /\ OnePageReported(t) /\ pc[t] = "done"
        /\ loc[t].first.paging = PagingNoCount
        /\ cnt[t].calls = 1
        /\ Len(result[t].recs) > 0

C7_NoPageFailureFailsTheCall ==
    \A t \in Task :
        (prog[t] \in {"fetch", "dialogs"} /\ pc[t] = "done"
         /\ cnt[t].calls >= 1) => result[t].st = "ok"

\* C7 amended: in the concurrent fetch a page of 2..N whose request failed is
\* left out of the result, the other pages are kept, and the call does not
\* fail; a failure of page 1, and of any page of the sequential loop, is
\* raised to the caller and no records are returned.
C7_OnlyFanOutFailuresAreTolerated ==
    \A t \in Task :
        /\ FannedOut(t) =>
               /\ result[t].st = "ok"
               /\ \A p \in 2..loc[t].pages :
                      LET mine == {i \in 1..Len(result[t].recs) :
                                       result[t].recs[i][1] = p}
                      IN  Cardinality(mine) =
                              IF result[PageTask(p)].st = "err" THEN 0
                              ELSE result[PageTask(p)].val.n
        /\ (prog[t] \in {"fetch", "dialogs"} /\ loc[t].failed > 0) =>
               /\ pc[t] = "done"
               /\ result[t].st = "err"
               /\ result[t].recs = <<>>
        /\ (prog[t] \in {"fetch", "dialogs"} /\ pc[t] = "done"
            /\ result[t].st = "err" /\ cnt[t].calls >= 1) => loc[t].failed > 0

\* Page 2 failed, page 3 returned records, and the fetch returned.
C7_Witness ==
    \E t \in Task :
        /\ FannedOut(t) /\ loc[t].pages = 3
        /\ result[PageTask(2)].st = "err"
        /\ result[PageTask(3)].st = "ok" /\ result[PageTask(3)].val.n > 0
        /\ result[t].st = "ok"

\* The pages of the concurrent fetch t whose request is in flight.
PagesInFlight(t) == {p \in 2..loc[t].pages : InFlight(PageTask(p))}

\* C19: in the concurrent fetch no request for a page of 2..N exists before
\* the response of page 1 is there; while a request for a page is in flight
\* the fetch waits, its result list is the records of page 1 and it has
\* neither returned nor raised, also when another page has failed already;
\* when it has returned every page's request has returned or raised.
C19_FanOutAfterPage1JoinBeforeMerge ==
    \A t \in Task :
        prog[t] \in {"fetch", "projects"} =>
            /\ pc[t] \in {"start", "token", "page1"} =>
                   \A u \in Task :
                       prog[u] = "page" =>
                           pc[u] = "start" /\ ~InFlight(u) /\ cnt[u] = NoCnt
            /\ (pc[t] = "gather" \/ PagesInFlight(t) # {}) =>
                   /\ pc[t] = "gather"
                   /\ loc[t].first.kind = "json"
                   /\ loc[t].acc = Records(1, loc[t].first.n)
                   /\ result[t] = NoResult
            /\ (pc[t] = "done" /\ loc[t].pages > 1) =>
                   \A p \in 2..loc[t].pages :
                       pc[PageTask(p)] = "done" /\ result[PageTask(p)].st # "none"

\* Page 2 has failed while the request for page 3 is in flight, and the fetch
\* waits.
C19_Witness ==
    \E t \in Task :
        /\ prog[t] = "fetch" /\ pc[t] = "gather" /\ loc[t].pages = 3
        /\ result[PageTask(2)].st = "err"
        /\ InFlight(PageTask(3))
        /\ result[t].st = "none"

\* C20: the recovery of a request discards only the token that request was
\* sent with, never one a refresh has cached since; and a request that is
\* not a re-issued one is sent with the token that is cached when it is
\* sent, so the pages of one paginated call do not each refresh the token.
C20_RefreshedTokenIsKept ==
    [][/\ (token # NoToken /\ token' = NoToken) =>
              \E t \in Task : InFlight(t) /\ Top(t).tok = token
       /\ \A t \in Task :
              (/\ stack'[t] # stack[t] /\ InFlight(t)'
               /\ Top(t)'.ep # "signIn" /\ ~Top(t)'.retried) =>
                  Top(t)'.tok = token']_vars

\* ------------------------------------------------- concurrent callers
\* Several coroutines of one client, started at any time: one get_me-style
\* call, the others a bare `await api.token`.  The server is the one of the
\* paginated calls.

InitToken ==
    InitTasks([t \in 1..MaxClients |-> IF t = 1 THEN "call" ELSE "read"])

NextToken ==
    \/ Begin
    \/ Refresh(PagedServer, MaxDepth)
    \/ GotToken(PagedServer)
    \/ Answered(PagedServer)

SpecToken == InitToken /\ [][NextToken]_vars

\* The signIn requests in flight.
SignInsInFlight == {t \in Task : InFlight(t) /\ Top(t).ep = "signIn"}

\* Task t finishes a token read in this step that found the cache empty.
ReadMissReturns(t) ==
    /\ prog[t] = "read" /\ pc[t] = "token" /\ pc'[t] = "done"
    /\ result'[t].st = "ok"

\* Task t reads the token in this step and finds it cached.
ReadHit(t) == pc[t] = "start" /\ pc'[t] # "start" /\ token # NoToken

\* C8: a cached token is what every read returns, without a signIn request,
\* until it is invalidated: it is never replaced by another token while it is
\* cached.  A read that finds the cache empty makes exactly one signIn request
\* and leaves its token in the cache.
C8_CachedUntilInvalidated ==
    [][/\ token # NoToken => token' \in {token, NoToken}
       /\ \A t \in Task :
              /\ ReadHit(t) =>
                     /\ token' = token
                     /\ cnt'[t].signIn = 0
                     /\ prog[t] = "read" => result'[t].tokv = token
                     /\ prog[t] = "call" =>
                            stack'[t] = <<Frame("actor", 0, token, FALSE)>>
              /\ ReadMissReturns(t) =>
                     /\ cnt'[t].signIn = 1
                     /\ token' = result'[t].tokv]_vars

\* C9: at most one signIn request is in flight at any time, and the reads
\* that found the cache empty all return the token of that one signIn.
C9_SingleFlight ==
    /\ Cardinality(SignInsInFlight) <= 1
    /\ \A t, u \in Task :
           (/\ prog[t] = "read" /\ prog[u] = "read"
            /\ pc[t] = "done" /\ pc[u] = "done"
            /\ result[t].st = "ok" /\ result[u].st = "ok"
            /\ cnt[t].signIn > 0 /\ cnt[u].signIn > 0
            /\ \A v \in Task : cnt[v].inval = 0) =>
               result[t].tokv = result[u].tokv

\* Task t's chain receives, in this step, a signIn body whose success flag is
\* true and that has no token, or an empty one, at response.token.
SignInWithoutToken(t) ==
    /\ prog[t] = "call" /\ InFlight(t) /\ Top(t).ep = "signIn"
    /\ Len(log'[t]) = Len(log[t]) + 1
    /\ LET e == log'[t][Len(log'[t])]
       IN  /\ e.ep = "signIn"
           /\ e.resp.kind = "json" /\ e.resp.success
           /\ e.resp.token = NoToken

SendArgs ==
    {[NoArgs EXCEPT !.user_id = u, !.text = x] :
        u \in {PyNone, PyInt(0), PyInt(7)}, x \in {PyNone, PyStr(0), PyStr(2)}}

ProjectsArgs ==
    {[NoArgs EXCEPT !.categories_ids = c, !.page = p] :
        c \in {PyNone, PyList(0), PyList(1)}, p \in {PyNone, PyInt(2)}}
    \ {AllProjects}

RequestArgs ==
    {[NoArgs EXCEPT !.api_method = m, !.full_url = u] :
        m \in {PyNone, PyStr(0), PyStr(5)}, u \in {PyNone, PyStr(9)}}

ArgsOf(main) ==
    CASE main = "send" -> SendArgs
      [] main = "projects" -> ProjectsArgs
      [] main = "raw" -> RequestArgs

\* One client: task 1 calls send_message, get_projects or request() with
\* some arguments, and the other task reads the token at any time.
InitArgs ==
    \E main \in {"send", "projects", "raw"} :
        \E a \in ArgsOf(main) :
            InitCalls([t \in 1..2 |-> IF t = 1 THEN main ELSE "read"], a)

Requested == \E t \in Task : RequestCall(t)

NextArgs ==
    \/ Begin
    \/ Requested
    \/ Refresh(PagedServer, MaxDepth)
    \/ GotToken(PagedServer)
    \/ Answered(PagedServer)

SpecArgs == InitArgs /\ [][NextArgs]_vars

\* send_message with an empty text or without a recipient id, get_projects
\* with an empty category list.
BadArguments(t) ==
    \/ /\ prog[t] = "send"
       /\ loc[t].args.text = PyStr(0) \/ loc[t].args.user_id = PyNone
    \/ /\ prog[t] = "projects"
       /\ loc[t].args.categories_ids = PyList(0)

\* C14: send_message with an empty text or a missing recipient id, and
\* get_projects with an empty category list, raise KworkValidationException
\* in the step they are called in: no request() call, no network call, no
\* signIn, nothing in flight, and the cached token is what it was.
C14_ValidationBeforeNetwork ==
    [][\A t \in Task :
           (BadArguments(t) /\ pc[t] = "start" /\ pc'[t] # "start") =>
               /\ pc'[t] = "done"
               /\ result'[t].st = "err"
               /\ result'[t].err.cls = "KworkValidationException"
               /\ cnt'[t] = NoCnt
               /\ ~InFlight(t)'
               /\ token' = token
               /\ closed' = closed]_vars

\* send_message(7, "") has raised while a token was cached, and the token is
\* still cached.
C14_Witness ==
    \E t \in Task :
        /\ prog[t] = "send" /\ pc[t] = "done"
        /\ loc[t].args.text = PyStr(0) /\ loc[t].args.user_id = PyInt(7)
        /\ result[t].err.cls = "KworkValidationException"
        /\ cnt[t].net = 0
        /\ token # NoToken

\* C15: request() called with neither an endpoint name nor a URL raises
\* KworkValidationException, and makes no network call.
C15_NoTargetIsValidationError ==
    \A t \in Task :
        (/\ prog[t] = "raw" /\ pc[t] # "start"
         /\ loc[t].args.api_method = PyNone /\ loc[t].args.full_url = PyNone) =>
            /\ pc[t] = "done"
            /\ result[t].st = "err"
            /\ result[t].err.cls = "KworkValidationException"
            /\ cnt[t].net = 0

\* ------------------------------------------------------------- close()
\* `if self.session and not self.session.closed`
MustCloseAlways(isClosed) == TRUE

MustCloseSession(isClosed) == ~isClosed

\* close() is called: an open session is closed, and the coroutine waits for
\* session.close(); with a closed session it clears the token and returns.
\* cnt.calls counts the close() calls that returned.
CloseCall(t) ==
    /\ prog[t] = "close"
    /\ pc[t] = "start"
    /\ cnt[t].calls < MaxCloses
    /\ IF MustCloseSession(closed)
       THEN /\ closed' = TRUE
            /\ sessCloses' = sessCloses + 1
            /\ pc' = [pc EXCEPT ![t] = "closing"]
            /\ UNCHANGED <<token, cnt>>
       ELSE /\ token' = NoToken
            /\ cnt' = [cnt EXCEPT ![t].calls = @ + 1]
            /\ UNCHANGED <<closed, sessCloses, pc>>
    /\ UNCHANGED <<prog, stack, loc, result, settled, log>>

\* session.close() is done: `self._token = None`, and close() returns.
CloseReturn(t) ==
    /\ prog[t] = "close"
    /\ pc[t] = "closing"
    /\ token' = NoToken
    /\ pc' = [pc EXCEPT ![t] = "start"]
    /\ cnt' = [cnt EXCEPT ![t].calls = @ + 1]
    /\ UNCHANGED <<closed, sessCloses, prog, stack, loc, result, settled, log>>

\* One coroutine calls close() again and again (explicitly, and leaving
\* `async with`), another one uses the client meanwhile.
InitClose == InitTasks([t \in 1..2 |-> IF t = 1 THEN "close" ELSE "call"])

Closing == \E t \in Task : CloseCall(t)
Closed == \E t \in Task : CloseReturn(t)

NextClose ==
    \/ Begin
    \/ Refresh(PagedServer, MaxDepth)
    \/ GotToken(PagedServer)
    \/ Answered(PagedServer)
    \/ Closing
    \/ Closed

SpecClose == InitClose /\ [][NextClose]_vars

\* Task t returns from a close() call in this step.
CloseReturns(t) == prog[t] = "close" /\ cnt'[t].calls = cnt[t].calls + 1

\* C10: whatever the number of close() calls, session.close() is called
\* exactly once, by the first of them; no close() raises, and when a close()
\* returns the session is closed and the cached token is empty.
C10_CloseIsIdempotent ==
    [][/\ sessCloses' <= 1
       /\ \A t \in Task :
              CloseReturns(t) =>
                  /\ token' = NoToken
                  /\ closed' /\ sessCloses' = 1
                  /\ result'[t].st = "none"]_vars

\* close() has returned twice, after a call of the client had cached a token.
C10_Witness ==
    \E t, u \in Task :
        /\ prog[t] = "close" /\ cnt[t].calls = 2 /\ pc[t] = "start"
        /\ sessCloses = 1 /\ closed /\ token = NoToken
        /\ prog[u] = "call" /\ pc[u] = "done" /\ result[u].st = "ok"

====
